---------------------------- MODULE Spec2Model ----------------------------
(***************************************************************************)
(* Model of the climate-adaptability scoring pipeline of                   *)
(* src/sentiment_analysis.py: get_company_news, analyze_sentiment,         *)
(* calculate_scores and save_data.                                         *)
(*                                                                         *)
(* Numbers.  Metric values, weights and VADER compound values are kept in  *)
(* hundredths (0.85 is 85).  Python's float arithmetic is modelled by      *)
(* exact rationals <<numerator, denominator>>; round() is Python 3's       *)
(* round-half-to-even on the exact value.                                  *)
(*                                                                         *)
(* Python values.  A dict is a function whose DOMAIN is its key set, so a  *)
(* missing key is a key outside the DOMAIN.  None is the string PyNone.    *)
(* A JSON array element that is not an object is the record NonDict.       *)
(***************************************************************************)
EXTENDS Integers, Sequences, FiniteSets, TLC

(***************************************************************************)
(* Bounds of the model.                                                    *)
(***************************************************************************)
MaxCompanies == 2
MaxTerms == 1
MaxMonths == 2
MaxRuns == 2
MaxTicks == 1
MaxPayloads == 2
MaxArticles == 3

(***************************************************************************)
(* Program constants.                                                      *)
(***************************************************************************)
DefaultMonths == 5
NewsApiCap == 5
WindowDays == 30

PyNone == "<None>"
NonDict == [nondict |-> TRUE]
IsDict(x) == "nondict" \notin DOMAIN x

Sources == {"NewsAPI", "GNews"}
KeyNames == {"NEWSAPI_KEY", "GNEWS_KEY"}
EsgKeys == {"emissions_reduction", "renewable_energy", "water_conservation",
            "waste_management", "supply_chain"}
TrendMonths == <<"May", "Jun", "Jul", "Aug", "Sep">>

(***************************************************************************)
(* Calendar: strftime("%b") of the date that lies `back` days before day   *)
(* `day` of a 365-day year (days are numbered 1..365 and wrap around).     *)
(***************************************************************************)
MonthAbbr == <<"Jan", "Feb", "Mar", "Apr", "May", "Jun",
               "Jul", "Aug", "Sep", "Oct", "Nov", "Dec">>
MonthEnds == <<31, 59, 90, 120, 151, 181, 212, 243, 273, 304, 334, 365>>

DayBack(day, back) == ((day - 1 - back) % MonthEnds[12]) + 1

MonthOfDay(day) ==
    MonthAbbr[CHOOSE m \in 1..12 :
                 /\ day <= MonthEnds[m]
                 /\ \A k \in 1..(m - 1) : day > MonthEnds[k]]

\* end_date.strftime("%b") for window i read on day `day`
MonthName(day, i) == MonthOfDay(DayBack(day, i * WindowDays))

(***************************************************************************)
(* Exact arithmetic.                                                       *)
(***************************************************************************)
Abs(x) == IF x < 0 THEN -x ELSE x

RECURSIVE Gcd(_, _)
Gcd(a, b) == IF b = 0 THEN a ELSE Gcd(b, a % b)

\* the rational n/d (d > 0) in lowest terms
Frac(n, d) ==
    LET g == Gcd(Abs(n), d)
    IN  <<n \div g, d \div g>>

\* an always-rounding-half-up variant of round()
RoundHalfUp(n, d) == (2 * n + d) \div (2 * d)

\* Python 3 round(n/d) for d > 0: nearest integer, ties to the even one
RoundHalfEven(n, d) ==
    LET q == n \div d
        r == n % d
    IN  IF 2 * r < d THEN q
        ELSE IF 2 * r > d THEN q + 1
        ELSE IF q % 2 = 0 THEN q ELSE q + 1

RECURSIVE SumSeq(_)
SumSeq(s) == IF s = <<>> THEN 0 ELSE Head(s) + SumSeq(Tail(s))

\* sum(scores) / len(scores) if scores else 0
Mean(scores) ==
    IF scores = <<>> THEN <<0, 1>> ELSE Frac(SumSeq(scores), Len(scores))


(***************************************************************************)
(* Python helpers.                                                         *)
(***************************************************************************)
\* d.get(k, default)
Get(d, k, default) == IF k \in DOMAIN d THEN d[k] ELSE default

\* d[k] = v on a dict (the other keys are kept)
SetKey(d, k, v) == [x \in (DOMAIN d) \cup {k} |-> IF x = k THEN v ELSE d[x]]

Min(a, b) == IF a < b THEN a ELSE b

Ok(v) == [exc |-> "", value |-> v]
Raise(e) == [exc |-> e]

(***************************************************************************)
(* News-source responses.  A response either raises (requests.get or       *)
(* .json() fails) or carries the decoded JSON payload.                     *)
(***************************************************************************)
Raises == [raises |-> TRUE]
Payload(data) == [raises |-> FALSE, data |-> data]

Item(t) == [title |-> t, description |-> ""]
NullTitleItem == [title |-> PyNone, description |-> ""]
NoTitleItem == [description |-> ""]

\* more records than the cap
OverCap == [i \in 1..(NewsApiCap + 1) |-> Item("gain")]

ItemLists ==
    { <<>>, <<Item("gain")>>, <<Item("loss")>>, OverCap,
      <<Item("gain"), NonDict>>, <<NullTitleItem>>, <<NoTitleItem>> }

NewsApiOk(items) == Payload([status |-> "ok", articles |-> items])
NewsApiError == Payload([status |-> "error", message |-> "rateLimited"])
GNewsOk(items) == Payload([articles |-> items])
GNewsError == Payload([errors |-> <<"forbidden">>])

NewsApiResponses == {Raises, NewsApiError} \cup {NewsApiOk(l) : l \in ItemLists}
GNewsResponses == {Raises, GNewsError} \cup {GNewsOk(l) : l \in ItemLists}

\* the article records a response carries
ItemsOf(resp) ==
    IF resp.raises THEN <<>> ELSE Get(resp.data, "articles", <<>>)

(***************************************************************************)
(* get_company_news, lines 76-107: what one query adds to all_articles.    *)
(* The result is [added, raised]: the articles appended before the try     *)
(* block ended, and whether it ended in the except branch.                 *)
(***************************************************************************)
\* the leading run of dict elements of a JSON array
RECURSIVE DictPrefix(_)
DictPrefix(items) ==
    IF items = <<>> \/ ~IsDict(Head(items)) THEN <<>>
    ELSE <<Head(items)>> \o DictPrefix(Tail(items))

\* lines 84-85: article["month"] = month_name; article["source"] = "NewsAPI"
NewsApiArticle(item, month_name) ==
    SetKey(SetKey(item, "month", month_name), "source", "NewsAPI")

\* lines 98-104
GNewsArticle(item, month_name) ==
    [title |-> Get(item, "title", ""),
     description |-> Get(item, "description", ""),
     url |-> Get(item, "url", ""),
     month |-> month_name,
     source |-> "GNews"]

\* newsapi_data.get("articles", [])[:5]
NewsApiSlice(items) == SubSeq(items, 1, Min(NewsApiCap, Len(items)))

NewsApiAdd(resp, month_name) ==
    IF resp.raises \/ ~IsDict(resp.data) THEN [added |-> <<>>, raised |-> TRUE]
    ELSE IF Get(resp.data, "status", PyNone) = "ok"
    THEN LET items == NewsApiSlice(Get(resp.data, "articles", <<>>))
             good == DictPrefix(items)
         IN  [added |-> [i \in 1..Len(good) |-> NewsApiArticle(good[i], month_name)],
              raised |-> Len(good) < Len(items)]
    ELSE [added |-> <<>>, raised |-> FALSE]

GNewsAdd(resp, month_name) ==
    IF resp.raises \/ ~IsDict(resp.data) THEN [added |-> <<>>, raised |-> TRUE]
    ELSE LET items == Get(resp.data, "articles", <<>>)
             good == DictPrefix(items)
         IN  [added |-> [i \in 1..Len(good) |-> GNewsArticle(good[i], month_name)],
              raised |-> Len(good) < Len(items)]

\* a query has failed: the request or the decoding raised, the provider
\* reported an error, or the payload is malformed
IsFailure(source, resp) ==
    \/ resp.raises
    \/ ~IsDict(resp.data)
    \/ source = "NewsAPI" /\ Get(resp.data, "status", PyNone) /= "ok"
    \/ source = "GNews" /\ "errors" \in DOMAIN resp.data
    \/ \E i \in 1..Len(ItemsOf(resp)) : ~IsDict(ItemsOf(resp)[i])

\* line 62: if not (newsapi_key and gnews_key); a false-y key is None or ""
Truthy(v) == v /= PyNone /\ v /= ""

\* a check that only looks at the first credential
HasNewsApiKeyOnly(environ) == Truthy(environ["NEWSAPI_KEY"])

HasApiKeys(environ) == Truthy(environ["NEWSAPI_KEY"]) /\ Truthy(environ["GNEWS_KEY"])

(***************************************************************************)
(* analyze_sentiment, lines 111-151.  polarity_scores is the VADER lexicon *)
(* of nltk: a fixed table from the words of the text to a compound value.  *)
(***************************************************************************)
Polarity(word) ==
    CASE word = "gain" -> 80
      [] word = "loss" -> -60
      [] OTHER -> 0

\* sia.polarity_scores(content)["compound"], content a sequence of words
Compound(content) ==
    LET total == SumSeq([i \in 1..Len(content) |-> Polarity(content[i])])
    IN  IF total > 100 THEN 100 ELSE IF total < -100 THEN -100 ELSE total

\* article.get("title", "") + " " + article.get("description", "")
Content(article) ==
    LET title == Get(article, "title", "")
        description == Get(article, "description", "")
    IN  IF title = PyNone \/ description = PyNone THEN Raise("TypeError")
        ELSE Ok(<<title, " ", description>>)

Sentiments(articles) ==
    [i \in 1..Len(articles) |-> Compound(Content(articles[i]).value)]

RECURSIVE InMonth(_, _)
InMonth(articles, month) ==
    IF articles = <<>> THEN <<>>
    ELSE IF Get(Head(articles), "month", PyNone) = month
         THEN <<Head(articles)>> \o InMonth(Tail(articles), month)
         ELSE InMonth(Tail(articles), month)

\* lines 143-145: while len(trend) < 5: trend.append(0)
RECURSIVE PadTrend(_)
PadTrend(trend) ==
    IF Len(trend) < 5 THEN PadTrend(Append(trend, <<0, 1>>)) ELSE trend

\* a trend that keeps only the months that have articles
TrendDense(articles) ==
    LET all == [m \in 1..Len(TrendMonths) |->
                   Mean(Sentiments(InMonth(articles, TrendMonths[m])))]
    IN  PadTrend(SelectSeq(all, LAMBDA f : f /= <<0, 1>>))

\* lines 126-145
Trend(articles) ==
    PadTrend([m \in 1..Len(TrendMonths) |->
                 Mean(Sentiments(InMonth(articles, TrendMonths[m])))])

analyze_sentiment(articles) ==
    IF articles = <<>>
    THEN Ok([score |-> <<0, 1>>,
             trend |-> <<<<0, 1>>, <<0, 1>>, <<0, 1>>, <<0, 1>>, <<0, 1>>>>,
             months |-> TrendMonths])
    ELSE IF \E i \in 1..Len(articles) : Content(articles[i]).exc /= ""
    THEN Raise("TypeError")
    ELSE Ok([score |-> Mean(Sentiments(articles)),
             trend |-> Trend(articles),
             months |-> TrendMonths])

(***************************************************************************)
(* calculate_scores, lines 163-174: the scores of one company.             *)
(***************************************************************************)
RECURSIVE SumOver(_, _, _)
SumOver(keys, metrics, w) ==
    IF keys = {} THEN 0
    ELSE LET k == CHOOSE x \in keys : TRUE
         IN  metrics[k] * w[k] + SumOver(keys \ {k}, metrics, w)

\* an ESG score without the scaling to 0..100: round(esg_score)
EsgScoreUnscaled(metrics, w) ==
    IF \E k \in DOMAIN metrics : k \notin DOMAIN w THEN Raise("KeyError")
    ELSE Ok(RoundHalfEven(SumOver(DOMAIN metrics, metrics, w), 10000))

\* lines 164-165: round(sum(value * weights[metric] ...) * 100);
\* metrics and weights in hundredths, so the sum is in ten-thousandths
EsgScore(metrics, w) ==
    IF \E k \in DOMAIN metrics : k \notin DOMAIN w THEN Raise("KeyError")
    ELSE Ok(RoundHalfEven(SumOver(DOMAIN metrics, metrics, w), 100))

\* line 168: round((score + 1) / 2 * 100), score = <<n, d>> in hundredths
SentimentScore(score) == RoundHalfEven(score[1] + 100 * score[2], 2 * score[2])

\* an overall score that rounds half up
OverallScoreHalfUp(esg_score, sentiment_score, sentiment_weight) ==
    RoundHalfUp(esg_score * (100 - sentiment_weight)
                   + sentiment_score * sentiment_weight, 100)

\* lines 172-174: round(esg_score * (1 - w) + sentiment_score * w)
OverallScore(esg_score, sentiment_score, sentiment_weight) ==
    RoundHalfEven(esg_score * (100 - sentiment_weight)
                     + sentiment_score * sentiment_weight, 100)

\* lines 161-176 on one company dict, mutated in place: the dict as the
\* statements leave it, and the exception that ended them (if any)
ScoreOf(company, articles, w) ==
    LET sent == analyze_sentiment(articles)
    IN  IF sent.exc /= "" THEN [exc |-> sent.exc, company |-> company]
        ELSE
        LET c1 == SetKey(company, "sentiment", sent.value)
            esg == EsgScore(company.metrics, w)
        IN  IF esg.exc /= "" THEN [exc |-> esg.exc, company |-> c1]
            ELSE
            LET c2 == SetKey(c1, "esg_score", esg.value)
                c3 == SetKey(c2, "sentiment_score", SentimentScore(sent.value.score))
            IN  IF "sentiment_weight" \notin DOMAIN w
                THEN [exc |-> "KeyError", company |-> c3]
                ELSE [exc |-> "",
                      company |-> SetKey(c3, "overall_score",
                                     OverallScore(c2.esg_score, c3.sentiment_score,
                                                  w.sentiment_weight))]

(***************************************************************************)
(* Line 179: results.sort(key=overall_score, reverse=True).  list.sort is  *)
(* stable, also with reverse=True: equal keys keep their order.            *)
(***************************************************************************)
\* insert c behind every element whose key is >= its own
RECURSIVE InsertDesc(_, _)
InsertDesc(sorted, c) ==
    IF sorted = <<>> THEN <<c>>
    ELSE IF Head(sorted).overall_score >= c.overall_score
         THEN <<Head(sorted)>> \o InsertDesc(Tail(sorted), c)
         ELSE <<c>> \o sorted

RECURSIVE InsertAsc(_, _)
InsertAsc(sorted, c) ==
    IF sorted = <<>> THEN <<c>>
    ELSE IF Head(sorted).overall_score <= c.overall_score
         THEN <<Head(sorted)>> \o InsertAsc(Tail(sorted), c)
         ELSE <<c>> \o sorted

RECURSIVE SortAsc(_)
SortAsc(results) ==
    IF results = <<>> THEN <<>>
    ELSE InsertAsc(SortAsc(SubSeq(results, 1, Len(results) - 1)),
                   results[Len(results)])

Reverse(s) == [i \in 1..Len(s) |-> s[Len(s) + 1 - i]]

\* sorted ascending and then reversed: ties come out in reverse order
SortAscReversed(results) == Reverse(SortAsc(results))

RECURSIVE SortDesc(_)
SortDesc(results) ==
    IF results = <<>> THEN <<>>
    ELSE InsertDesc(SortDesc(SubSeq(results, 1, Len(results) - 1)),
                    results[Len(results)])

(***************************************************************************)
(* Static configuration, lines 18-52.                                      *)
(***************************************************************************)
AppleMetrics ==
    [emissions_reduction |-> 85, renewable_energy |-> 92, water_conservation |-> 78,
     waste_management |-> 88, supply_chain |-> 76]
MicrosoftMetrics ==
    [emissions_reduction |-> 90, renewable_energy |-> 95, water_conservation |-> 82,
     waste_management |-> 89, supply_chain |-> 84]

CodeWeights ==
    [emissions_reduction |-> 25, renewable_energy |-> 25, water_conservation |-> 15,
     waste_management |-> 15, supply_chain |-> 20, sentiment_weight |-> 25]

TermNames == <<"q1", "q2", "q3">>
TermList(n) == SubSeq(TermNames, 1, n)

MetricProfiles == {AppleMetrics, MicrosoftMetrics}

Company(i, metrics) ==
    [name |-> i, search_terms |-> <<"q1">>, metrics |-> metrics]

CompanyLists ==
    UNION { { [i \in 1..n |-> Company(i, f[i])] : f \in [1..n -> MetricProfiles] }
            : n \in 0..MaxCompanies }

Environs == [KeyNames -> {PyNone, "", "key"}]

\* what the (mocked) news sources answer to every query about one company
MockScenarios ==
    { [NewsAPI |-> Raises, GNews |-> Raises],
      [NewsAPI |-> NewsApiOk(<<Item("gain")>>), GNews |-> Raises],
      [NewsAPI |-> NewsApiOk(<<NullTitleItem>>), GNews |-> GNewsOk(<<Item("gain")>>)] }

Mocks(n) == [1..n -> MockScenarios]

\* the days (of the year) a process may start on: 30 June, 15 September
StartDays == {181, 258}

(***************************************************************************)
(* State.                                                                  *)
(***************************************************************************)
VARIABLES
    pc,            \* where the flow of control stands
    companies,     \* the module-level company list, mutated in place
    weights,       \* the module-level weights dict
    environ,       \* os.environ: NEWSAPI_KEY and GNEWS_KEY
    mock,          \* company index -> source -> response (pipeline runs)
    today,         \* the calendar day datetime.now() falls on
    ticks,         \* midnights passed
    run,           \* completed calls of save_data
    ci,            \* calculate_scores: index of the company in the loop
    terms,         \* get_company_news: search_terms
    months,        \* get_company_news: months
    ti,            \* get_company_news: index of the term in the loop
    wi,            \* get_company_news: i of range(months)
    month_name,    \* get_company_news: month_name of the current window
    all_articles,  \* get_company_news: all_articles
    last,          \* the last query: its source, response and what it added
    payloads,      \* responses with article records received in this call
    failedEvery,   \* source -> every query of this call to it has failed
    nreq,          \* requests issued since the process started
    results,       \* calculate_scores: results
    climate_data,  \* the file climate_data.json
    outputs,       \* per finished run: its exception or document
    exc,           \* the exception being raised
    clockReads,    \* the days datetime.now() returned in this run
    arg,           \* argument of a function called on its own
    ret            \* its result

vars == <<pc, companies, weights, environ, mock, today, ticks, run, ci, terms,
          months, ti, wi, month_name, all_articles, last, payloads,
          failedEvery, nreq, results, climate_data, outputs, exc, clockReads, arg, ret>>

configVars == <<weights, environ, mock>>
callVars == <<terms, months, ti, wi, month_name, all_articles, last, payloads,
              failedEvery>>
runVars == <<run, ci, results, climate_data, outputs>>
pureVars == <<arg, ret>>

NoQuery == [source |-> "none"]
NoFile == [exists |-> FALSE]

InitCommon ==
    /\ ticks = 0
    /\ run = 0
    /\ ci = 0
    /\ ti = 0
    /\ wi = 0
    /\ month_name = ""
    /\ all_articles = <<>>
    /\ last = NoQuery
    /\ payloads = 0
    /\ failedEvery = [s \in Sources |-> TRUE]
    /\ nreq = 0
    /\ results = <<>>
    /\ climate_data = NoFile
    /\ outputs = <<>>
    /\ exc = ""
    /\ clockReads = {}
    /\ ret = <<>>

\* a fresh process, before save_data is called
Init ==
    /\ InitCommon
    /\ arg = <<>>
    /\ pc = "idle"
    /\ companies \in CompanyLists
    /\ weights = CodeWeights
    /\ environ \in Environs
    /\ mock \in Mocks(Len(companies))
    /\ today \in StartDays
    /\ terms = <<>>
    /\ months = 0

(***************************************************************************)
(* get_company_news, lines 54-109, one step per request.                   *)
(***************************************************************************)
\* an accumulator that outlives the call (a module-level or default-argument list)
KeptArticles(previous) == previous

\* line 56: all_articles = []
FreshArticles(previous) == <<>>

\* lines 66-74: the next window is entered and the clock is read
EnterWindow(t, i) ==
    /\ ti' = t
    /\ wi' = i
    /\ month_name' = MonthName(today, i)
    /\ clockReads' = clockReads \cup {today}
    /\ pc' = "newsapi"

\* lines 56-65: the function is entered, the keys are read and checked
CallNews ==
    /\ pc = "call"
    /\ all_articles' = FreshArticles(all_articles)
    /\ last' = NoQuery
    /\ payloads' = 0
    /\ failedEvery' = [s \in Sources |-> TRUE]
    /\ IF ~HasApiKeys(environ)
       THEN /\ pc' = "raised"
            /\ exc' = "ValueError"
            /\ UNCHANGED <<ti, wi, month_name, clockReads>>
       ELSE /\ exc' = exc
            /\ IF terms = <<>> \/ months = 0
               THEN /\ pc' = "return"
                    /\ UNCHANGED <<ti, wi, month_name, clockReads>>
               ELSE EnterWindow(1, 0)
    /\ UNCHANGED <<companies, configVars, today, ticks, terms, months, nreq,
                   runVars, pureVars>>

\* lines 76-88: the NewsAPI query of the current (term, window)
QueryNewsAPI(resp) ==
    /\ pc = "newsapi"
    /\ LET r == NewsApiAdd(resp, month_name)
       IN  /\ all_articles' = all_articles \o r.added
           /\ last' = [source |-> "NewsAPI", resp |-> resp,
                       added |-> Len(r.added), raised |-> r.raised,
                       term |-> ti, window |-> wi]
    /\ payloads' = payloads + (IF ItemsOf(resp) /= <<>> THEN 1 ELSE 0)
    /\ failedEvery' = [failedEvery EXCEPT
                          !["NewsAPI"] = @ /\ IsFailure("NewsAPI", resp)]
    /\ nreq' = nreq + 1
    /\ pc' = "gnews"
    /\ UNCHANGED <<companies, configVars, today, ticks, terms, months, ti, wi,
                   month_name, runVars, exc, clockReads, pureVars>>

\* lines 90-107: the GNews query, then the loops advance (lines 65-66, 109)
QueryGNews(resp) ==
    /\ pc = "gnews"
    /\ LET r == GNewsAdd(resp, month_name)
       IN  /\ all_articles' = all_articles \o r.added
           /\ last' = [source |-> "GNews", resp |-> resp,
                       added |-> Len(r.added), raised |-> r.raised,
                       term |-> ti, window |-> wi]
    /\ payloads' = payloads + (IF ItemsOf(resp) /= <<>> THEN 1 ELSE 0)
    /\ failedEvery' = [failedEvery EXCEPT
                          !["GNews"] = @ /\ IsFailure("GNews", resp)]
    /\ nreq' = nreq + 1
    /\ IF wi + 1 < months THEN EnterWindow(ti, wi + 1)
       ELSE IF ti < Len(terms) THEN EnterWindow(ti + 1, 0)
       ELSE /\ pc' = "return"
            /\ UNCHANGED <<ti, wi, month_name, clockReads>>
    /\ UNCHANGED <<companies, configVars, today, ticks, terms, months,
                   runVars, exc, pureVars>>

(***************************************************************************)
(* save_data and calculate_scores, lines 153-190.                          *)
(***************************************************************************)
\* lines 184, 155-158: save_data calls calculate_scores, which starts its loop
StartRun ==
    /\ pc = "idle"
    /\ run < MaxRuns
    /\ results' = <<>>
    /\ exc' = ""
    /\ clockReads' = {}
    /\ IF companies = <<>>
       THEN /\ pc' = "sort"
            /\ UNCHANGED <<ci, terms, months>>
       ELSE /\ pc' = "call"
            /\ ci' = 1
            /\ terms' = companies[1].search_terms
            /\ months' = DefaultMonths
    /\ UNCHANGED <<companies, configVars, today, ticks, run, ti, wi, month_name,
                   all_articles, last, payloads, failedEvery, nreq, climate_data,
                   outputs, pureVars>>

\* lines 158-176: get_company_news has returned; the company is scored in
\* place and appended, and the loop goes to the next company
ScoreCompany ==
    /\ pc = "return"
    /\ LET r == ScoreOf(companies[ci], all_articles, weights)
       IN  /\ companies' = [companies EXCEPT ![ci] = r.company]
           /\ IF r.exc /= ""
              THEN /\ pc' = "raised"
                   /\ exc' = r.exc
                   /\ UNCHANGED <<results, ci, terms, months>>
              ELSE /\ results' = Append(results, r.company)
                   /\ exc' = exc
                   /\ IF ci < Len(companies)
                      THEN /\ pc' = "call"
                           /\ ci' = ci + 1
                           /\ terms' = companies[ci + 1].search_terms
                           /\ months' = DefaultMonths
                      ELSE /\ pc' = "sort"
                           /\ UNCHANGED <<ci, terms, months>>
    /\ UNCHANGED <<configVars, today, ticks, run, ti, wi, month_name,
                   all_articles, last, payloads, failedEvery, nreq, climate_data,
                   outputs, clockReads, pureVars>>

\* lines 179-190: the results are sorted and written to climate_data.json;
\* open() raises when the path is not writable
SortAndSave(writable) ==
    /\ pc = "sort"
    /\ results' = SortDesc(results)
    /\ IF writable
       THEN /\ climate_data' = [exists |-> TRUE, data |-> results']
            /\ outputs' = Append(outputs,
                             [exc |-> "", doc |-> results', days |-> clockReads])
            /\ run' = run + 1
            /\ pc' = "idle"
            /\ exc' = exc
       ELSE /\ pc' = "raised"
            /\ exc' = "OSError"
            /\ UNCHANGED <<climate_data, outputs, run>>
    /\ UNCHANGED <<companies, configVars, today, ticks, ci, callVars, nreq,
                   clockReads, pureVars>>

\* an exception leaves save_data: nothing is written
Abort ==
    /\ pc = "raised"
    /\ outputs' = Append(outputs, [exc |-> exc, days |-> clockReads])
    /\ run' = run + 1
    /\ pc' = "idle"
    /\ UNCHANGED <<companies, configVars, today, ticks, ci, callVars, nreq,
                   results, climate_data, exc, clockReads, pureVars>>

\* midnight passes
Tick ==
    /\ ticks < MaxTicks
    /\ ticks' = ticks + 1
    /\ today' = (today % MonthEnds[12]) + 1
    /\ UNCHANGED <<pc, companies, configVars, run, ci, callVars, nreq, results,
                   climate_data, outputs, exc, clockReads, pureVars>>

Next ==
    \/ StartRun
    \/ CallNews
    \/ QueryNewsAPI(mock[ci]["NewsAPI"])
    \/ QueryGNews(mock[ci]["GNews"])
    \/ ScoreCompany
    \/ \E writable \in BOOLEAN : SortAndSave(writable)
    \/ Abort
    \/ Tick

Spec == Init /\ [][Next]_vars

(***************************************************************************)
(* get_company_news called on its own, with any search terms, any          *)
(* lookback and any response to each request.                              *)
(***************************************************************************)
InitNews ==
    /\ InitCommon
    /\ arg = <<>>
    /\ pc = "call"
    /\ companies = <<>>
    /\ weights = CodeWeights
    /\ environ \in Environs
    /\ mock = <<>>
    /\ today \in StartDays
    /\ terms \in {TermList(n) : n \in 0..MaxTerms}
    /\ months \in 0..MaxMonths

\* at most MaxPayloads responses of a call carry article records
WithinPayloads(resp) == ItemsOf(resp) /= <<>> => payloads < MaxPayloads

NextNews ==
    \/ CallNews
    \/ \E resp \in NewsApiResponses : WithinPayloads(resp) /\ QueryNewsAPI(resp)
    \/ \E resp \in GNewsResponses : WithinPayloads(resp) /\ QueryGNews(resp)

SpecNews == InitNews /\ [][NextNews]_vars

(***************************************************************************)
(* The scoring functions called on their own, on bounded inputs: the ESG   *)
(* blend (lines 164-165), the score composition (lines 168-174) and        *)
(* analyze_sentiment (lines 111-151).                                      *)
(***************************************************************************)
MetricValues == {0, 80, 100}

\* metrics dicts over the five ESG keys, and dicts that lack one key
MetricInputs ==
    [EsgKeys -> MetricValues]
        \cup UNION { [EsgKeys \ {k} -> {80, 100}] : k \in EsgKeys }

EqualWeights ==
    [emissions_reduction |-> 20, renewable_energy |-> 20, water_conservation |-> 20,
     waste_management |-> 20, supply_chain |-> 20, sentiment_weight |-> 25]
SkewedWeights ==
    [emissions_reduction |-> 50, renewable_energy |-> 50, water_conservation |-> 0,
     waste_management |-> 0, supply_chain |-> 0, sentiment_weight |-> 50]
\* a weights dict that lacks the supply_chain key
PartialWeights ==
    [emissions_reduction |-> 25, renewable_energy |-> 25, water_conservation |-> 25,
     waste_management |-> 25, sentiment_weight |-> 25]

WeightInputs == {CodeWeights, EqualWeights, SkewedWeights, PartialWeights}

ScoreInputs == { <<20 * k, 1>> : k \in -5..5 }
EsgInputs == {0, 20, 50, 80, 84, 89, 100}
SentimentWeightInputs == {0, 25, 50, 75, 100}

ArticleInputs ==
    { [title |-> t, description |-> "", month |-> m, source |-> "NewsAPI"] :
        t \in {"gain", "loss", PyNone}, m \in {"May", "Sep", "Oct"} }

ArticleLists == UNION { [1..n -> ArticleInputs] : n \in 0..MaxArticles }

InitPure ==
    /\ InitCommon
    /\ companies = <<>>
    /\ weights = CodeWeights
    /\ environ = [k \in KeyNames |-> "key"]
    /\ mock = <<>>
    /\ today \in StartDays
    /\ terms = <<>>
    /\ months = 0
    /\ \/ /\ pc = "blend"
          /\ arg \in [metrics : MetricInputs, weights : WeightInputs]
       \/ /\ pc = "compose"
          /\ arg \in [score : ScoreInputs, esg_score : EsgInputs,
                      sentiment_weight : SentimentWeightInputs]
       \/ /\ pc = "analyze"
          /\ arg \in [articles : ArticleLists]

nonPureVars == <<companies, configVars, today, ticks, callVars, nreq, runVars,
                 exc, clockReads>>

\* lines 164-165 on arg.metrics and arg.weights
Blend ==
    /\ pc = "blend"
    /\ ret' = EsgScore(arg.metrics, arg.weights)
    /\ pc' = "blended"
    /\ UNCHANGED <<arg, nonPureVars>>

\* lines 168-174 on arg.score, arg.esg_score and arg.sentiment_weight
Compose ==
    /\ pc = "compose"
    /\ LET sentiment_score == SentimentScore(arg.score)
       IN  ret' = [sentiment_score |-> sentiment_score,
                   overall_score |-> OverallScore(arg.esg_score, sentiment_score,
                                                  arg.sentiment_weight)]
    /\ pc' = "composed"
    /\ UNCHANGED <<arg, nonPureVars>>

\* analyze_sentiment(arg.articles)
Analyze ==
    /\ pc = "analyze"
    /\ ret' = analyze_sentiment(arg.articles)
    /\ pc' = "analyzed"
    /\ UNCHANGED <<arg, nonPureVars>>

NextPure == Blend \/ Compose \/ Analyze

SpecPure == InitPure /\ [][NextPure]_vars

(***************************************************************************)
(* get_company_news called by calculate_scores or on its own.              *)
(***************************************************************************)
\* the call in progress was not made by calculate_scores
Direct ==
    /\ ci = 0
    /\ \/ pc \in {"call", "newsapi", "gnews", "return"}
       \/ pc = "raised" /\ exc = "ValueError"

InitCalls == Init \/ InitNews

NextCalls ==
    \/ Direct /\ NextNews
    \/ ~Direct /\ Next

SpecCalls == InitCalls /\ [][NextCalls]_vars

(***************************************************************************)
(* Properties.                                                             *)
(***************************************************************************)
\* both credentials are set to a non-empty value
BothKeysPresent == \A k \in KeyNames : environ[k] \notin {PyNone, ""}

\* the documents written by the runs that completed
Documents == { outputs[k].doc : k \in { j \in 1..Len(outputs) : outputs[j].exc = "" } }

\* companies are named by their position in the input list
RankedStable(doc) ==
    \A i, j \in 1..Len(doc) :
        i < j => /\ doc[i].overall_score >= doc[j].overall_score
                 /\ doc[i].overall_score = doc[j].overall_score
                        => doc[i].name < doc[j].name

\* C1: every list returned by calculate_scores and every document written by
\* save_data is in descending order of overall_score, and companies with
\* equal overall_score keep the order of the input company list.
C1_RankedDescendingStable ==
    /\ \A doc \in Documents : RankedStable(doc)
    /\ climate_data.exists => RankedStable(climate_data.data)
    /\ pc = "idle" /\ run > 0 /\ exc = "" => RankedStable(results)

\* a written document in which the sort moved the second company to the front
C1_Witness ==
    /\ climate_data.exists
    /\ Len(climate_data.data) = 2
    /\ climate_data.data[1].name = 2
    /\ climate_data.data[1].overall_score > climate_data.data[2].overall_score

\* C2: a failed query (network error, malformed response, error payload)
\* never aborts get_company_news, adds no article for its (term, window,
\* source), every remaining tuple is still queried, and when one source
\* fails on every call the returned list holds only the other source's
\* articles.
C2_FailedQueryAddsNothing ==
    /\ BothKeysPresent => pc /= "raised"
    /\ last /= NoQuery /\ IsFailure(last.source, last.resp) => last.added = 0
    /\ pc = "return" /\ BothKeysPresent => nreq = 2 * Len(terms) * months
    /\ \A s \in Sources :
          pc = "return" /\ failedEvery[s]
              => \A i \in 1..Len(all_articles) : all_articles[i].source /= s

\* C3: with both credentials present, no response of a news source makes the
\* run raise: get_company_news returns only records whose title and
\* description are strings, and no TypeError leaves analyze_sentiment.
C3_NoSourcePayloadRaises ==
    /\ pc = "return"
          => \A i \in 1..Len(all_articles) :
                /\ {"title", "description"} \subseteq DOMAIN all_articles[i]
                /\ all_articles[i].title /= PyNone
                /\ all_articles[i].description /= PyNone
    /\ BothKeysPresent => exc \in {"", "KeyError", "OSError"}

Unscored(company) == DOMAIN company = {"name", "search_terms", "metrics"}

\* C4: when NEWSAPI_KEY or GNEWS_KEY is absent or empty, get_company_news
\* raises its configuration error (ValueError) before any request is issued,
\* whatever the search terms and the lookback: no article is fetched, no
\* company is scored and nothing is written.
C4_NoRequestWithoutKeys ==
    ~BothKeysPresent
        => /\ nreq = 0
           /\ all_articles = <<>>
           /\ pc \notin {"newsapi", "gnews", "return"}
           /\ pc = "raised" /\ (Direct \/ Len(companies) > 0) => exc = "ValueError"
           /\ \A i \in 1..Len(companies) : Unscored(companies[i])
           /\ results = <<>>
           /\ Len(companies) > 0 => Documents = {} /\ ~climate_data.exists

\* the run over two companies has raised ValueError: only GNEWS_KEY is empty
C4_Witness ==
    /\ environ["NEWSAPI_KEY"] = "key"
    /\ environ["GNEWS_KEY"] = ""
    /\ Len(companies) = 2
    /\ pc = "raised"
    /\ exc = "ValueError"
    /\ ci = 1

\* the indices of the articles labelled with a month
InBucket(articles, month) ==
    { i \in 1..Len(articles) : articles[i].month = month }

RECURSIVE SumCompound(_, _)
SumCompound(articles, idx) ==
    IF idx = {} THEN 0
    ELSE LET i == CHOOSE x \in idx : TRUE
         IN  Compound(<<articles[i].title, " ", articles[i].description>>)
                + SumCompound(articles, idx \ {i})

\* the rational f = <<n, d>> is total / count
IsMean(f, total, count) == f[2] > 0 /\ f[1] * count = total * f[2]

\* C5: a profile returned by analyze_sentiment has a trend of exactly 5
\* entries, one per fixed month label in order: 0 for a month without
\* articles, else the mean sentiment of the month's articles; for the empty
\* list the score is 0 and the trend is [0, 0, 0, 0, 0].
C5_TrendOfFiveMonths ==
    pc = "analyzed" /\ ret.exc = ""
        => /\ Len(ret.value.trend) = 5
           /\ ret.value.months = <<"May", "Jun", "Jul", "Aug", "Sep">>
           /\ \A m \in 1..5 :
                 LET idx == InBucket(arg.articles, ret.value.months[m])
                 IN  IF idx = {} THEN ret.value.trend[m] = <<0, 1>>
                     ELSE IsMean(ret.value.trend[m],
                                 SumCompound(arg.articles, idx), Cardinality(idx))
           /\ arg.articles = <<>>
                 => /\ ret.value.score = <<0, 1>>
                    /\ \A m \in 1..5 : ret.value.trend[m] = <<0, 1>>

\* two September articles of different sentiment, one article of a month
\* outside the five labels, and four months without articles
C5_Witness ==
    /\ pc = "analyzed"
    /\ ret.exc = ""
    /\ Len(arg.articles) = 3
    /\ arg.articles[1].month = "Sep" /\ arg.articles[1].title = "gain"
    /\ arg.articles[2].month = "Oct"
    /\ arg.articles[3].month = "Sep" /\ arg.articles[3].title = "loss"
    /\ ret.value.trend = <<<<0, 1>>, <<0, 1>>, <<0, 1>>, <<0, 1>>, <<10, 1>>>>

\* C6: a required ESG key that is absent from the metrics dict or from the
\* weights dict makes the ESG computation fail; such a company never
\* receives an esg_score.
C6_MissingKeyFails ==
    pc = "blended"
       /\ (~(EsgKeys \subseteq DOMAIN arg.metrics) \/ ~(EsgKeys \subseteq DOMAIN arg.weights))
        => ret.exc /= ""

ValidBlendInput ==
    /\ DOMAIN arg.metrics = EsgKeys
    /\ EsgKeys \subseteq DOMAIN arg.weights
    /\ \A k \in EsgKeys : arg.metrics[k] \in 0..100 /\ arg.weights[k] \in 0..100
    /\ SumOver(EsgKeys, [k \in EsgKeys |-> 1], arg.weights) = 100

\* C7: for metrics in [0,1] over the five ESG keys and weights in [0,1] that
\* sum to 1 over those keys, esg_score is an integer in [0,100]; it is 100
\* when every metric is 1.0 and 0 when every metric is 0.0.
C7_EsgScoreInRange ==
    pc = "blended" /\ ValidBlendInput
        => /\ ret.exc = ""
           /\ ret.value \in 0..100
           /\ (\A k \in EsgKeys : arg.metrics[k] = 100) => ret.value = 100
           /\ (\A k \in EsgKeys : arg.metrics[k] = 0) => ret.value = 0

\* all metrics 1.0 under the weights of the source give 100
C7_Witness ==
    /\ pc = "blended"
    /\ arg.weights = CodeWeights
    /\ \A k \in EsgKeys : arg.metrics[k] = 100
    /\ ret = Ok(100)

\* C8 as stated: two completed runs of one process, on the same static
\* inputs and the same news responses, write identical documents.
C8_SameDocuments == Cardinality(Documents) <= 1

\* the runs that completed, with the days their clock readings fell on
CompletedRuns == { j \in 1..Len(outputs) : outputs[j].exc = "" }

\* C8 as amended: two completed runs write identical documents when, in
\* addition, all their clock readings fall on the same calendar day.
C8_SameDocumentsSameDay ==
    \A i, j \in CompletedRuns :
        Cardinality(outputs[i].days \cup outputs[j].days) <= 1
            => outputs[i].doc = outputs[j].doc

\* two completed runs on one day over two companies, the first with articles
C8_Witness ==
    /\ Len(outputs) = 2
    /\ CompletedRuns = {1, 2}
    /\ Cardinality(outputs[1].days \cup outputs[2].days) = 1
    /\ Len(outputs[2].doc) = 2
    /\ \E i \in 1..2 : outputs[2].doc[i].sentiment.score /= <<0, 1>>

\* C9: sentiment_score = round((s + 1) / 2 * 100) and overall_score =
\* round(esg_score * (1 - w) + sentiment_score * w) are integers in [0,100]
\* within 1/2 of the rounded values; s = -1 gives sentiment_score 0, s = +1
\* gives 100, and esg_score 80 with s = 0 and w = 0.25 gives 50 and 72.
C9_ComposedScores ==
    pc = "composed"
        => LET n == arg.score[1]
               d == arg.score[2]
               w == arg.sentiment_weight
               ss == ret.sentiment_score
               ov == ret.overall_score
           IN  /\ ss \in 0..100
               /\ ov \in 0..100
               /\ Abs(2 * d * ss - (n + 100 * d)) <= d
               /\ Abs(100 * ov - (arg.esg_score * (100 - w) + ss * w)) <= 50
               /\ n = -100 * d => ss = 0
               /\ n = 100 * d => ss = 100
               /\ (arg.esg_score = 80 /\ n = 0 /\ w = 25) => (ss = 50 /\ ov = 72)

\* the end-to-end example: esg_score 80, no sentiment signal, weight 0.25
C9_Witness ==
    /\ pc = "composed"
    /\ arg = [score |-> <<0, 1>>, esg_score |-> 80, sentiment_weight |-> 25]
    /\ ret = [sentiment_score |-> 50, overall_score |-> 72]

\* C10: no query adds more than 5 articles, whatever its response holds, so
\* the returned list has at most 5 * len(search_terms) * months * 2 articles.
C10_AtMostFivePerQuery ==
    /\ last /= NoQuery => last.added <= 5
    /\ pc = "return" => Len(all_articles) <= 5 * Len(terms) * months * 2

\* the labels of the five fixed trend months
TrendLabels == { TrendMonths[m] : m \in 1..Len(TrendMonths) }

\* C11: every article returned by get_company_news with the default lookback
\* of 5 months carries one of the 5 month labels of analyze_sentiment,
\* whatever the run date, so it is counted in exactly one trend bucket.
C11_LabelsAreTrendMonths ==
    pc = "return" /\ months = DefaultMonths
        => \A a \in 1..Len(all_articles) :
              /\ all_articles[a].month \in TrendLabels
              /\ Cardinality({ m \in 1..Len(TrendMonths) :
                        a \in InBucket(all_articles, TrendMonths[m]) }) = 1

=============================================================================
